---- MODULE Spec2Model ----
(***************************************************************************)
(* Pavlov (src/src/pavlov.js): a behavioural DSL over QUnit.  A builder    *)
(* function declares nested examples (describe) holding before/after hooks *)
(* and specs (it, given(...).it); specify() runs the builder under one of  *)
(* two scope modes, compiles the forest of examples into a flat list of    *)
(* QUnit statements and runs them.                                         *)
(*                                                                         *)
(* The model keeps the program's module-level state (examples,             *)
(* currentExample, the assertHandler prototype, the implicit global        *)
(* thisApi, the global object), the JavaScript call stack of the describe  *)
(* calls in progress, and what the last specify() ran against QUnit.       *)
(***************************************************************************)
EXTENDS Integers, Sequences, FiniteSets

(***************************************************************************)
(* Bounds of the model.                                                    *)
(***************************************************************************)
MaxNodes == 3     \* examples declared by one builder run
MaxSpecs == 2     \* specs declared by one builder run
MaxHooks == 2     \* before()/after() calls of one builder run
MaxWaits == 3     \* wait() calls

(***************************************************************************)
(* JavaScript values the builder passes around.                            *)
(***************************************************************************)
Num(n) == [t |-> "number", v |-> <<n>>]
Bool(b) == [t |-> "boolean", v |-> <<b>>]
NullV == [t |-> "null", v |-> <<>>]
Undefined == [t |-> "undefined", v |-> <<>>]
Arr(s) == [t |-> "array", v |-> s]
Boxed(p) == [t |-> "object", v |-> <<p>>]
GlobalObject == [t |-> "global", v |-> <<>>]

(***************************************************************************)
(* Inputs the builder draws from.                                          *)
(***************************************************************************)
Names == <<"a", "b", "c", "d", "e">>   \* the k-th describe of a run passes the k-th
Hooks == <<"h1", "h2", "h3", "h4">>     \* the k-th before()/after() passes the k-th
Fns == {"f"}
ItBodies ==                              \* fn of it(): absent, or a function
    {[kind |-> "none", fn |-> "", arg |-> [t |-> "undefined", v |-> <<>>]]}
        \cup {[kind |-> "fn", fn |-> f, arg |-> [t |-> "undefined", v |-> <<>>]] :
                 f \in Fns}
GivenArgs == {<<Num(1), Arr(<<3, 4>>)>>, <<NullV>>}
Subjects == {Num(5), Num(0)}             \* values passed to assert()
Customs ==                               \* objects passed to extendAssertions
    {[n \in {"isPositive"} |-> "custom1"],
     [n \in {"isPositive"} |-> "custom2"],
     [n \in {"fail"} |-> "custom1"],
     [n \in {"value"} |-> "custom2"]}
Noop == "noop"
Null == 0
NoFn == [kind |-> "none", fn |-> "", arg |-> Undefined]
ApiVerbs == {"describe", "before", "after", "it", "given", "assert", "wait"}

VARIABLES
    examples,        \* var examples: the root examples, in declaration order
    currentExample,  \* var currentExample: the build cursor (Null or a node)
    heap,            \* the example objects reachable from examples, by identity
    globalScope,     \* the global object: the names bound on it and their values
    globalApi,       \* QUnit.specify.globalApi
    frames,          \* the describe calls in progress, outermost first
    pc,              \* where the program is: "idle", in the builder ("build"),
                     \* an error propagating out of describe calls
                     \* ("unwinding"), specify returned ("done") or threw
                     \* ("failed")
    prototype,       \* assertHandler.prototype: verb name -> implementation
    handlers,        \* the assertHandler objects assert() has returned
    invoked,         \* the last verb invoked on a handler, and what ran
    executed,        \* qunitStatements of the last complete specify()
    qunit,           \* the module()/test() calls those statements made
    declared,        \* how many examples, specs and hooks this run's builder declared
    twin,            \* the same builder calls under the other scope mode
    thrownAt,        \* <<n>> once an error was raised in the body of the
                     \* describe call of example n (Null: in the builder's own
                     \* body), until the builder calls a verb again; else <<>>
    engine,          \* QUnit's stop()/start() state, the timers of globalObject
                     \* and the log of what wait() and its timers did
    scope,           \* the scope chain of a builder run by extendScope
    verdict          \* what the last throwsException call did

builderVars == <<examples, currentExample, heap, globalScope, globalApi, frames,
                 pc, prototype, handlers, invoked, executed, qunit, declared,
                 twin, thrownAt>>

vars == <<examples, currentExample, heap, globalScope, globalApi, frames, pc,
          prototype, handlers, invoked, executed, qunit, declared, twin,
          thrownAt, engine, scope, verdict>>

(***************************************************************************)
(* Sequence helpers.                                                       *)
(***************************************************************************)
RECURSIVE Reverse(_)
Reverse(s) == IF s = <<>> THEN <<>> ELSE Reverse(Tail(s)) \o <<Head(s)>>

RECURSIVE Join(_, _)
Join(s, sep) ==
    IF s = <<>> THEN ""
    ELSE IF Len(s) = 1 THEN s[1]
    ELSE s[1] \o sep \o Join(Tail(s), sep)

RECURSIVE Concat(_)
Concat(ss) == IF ss = <<>> THEN <<>> ELSE Head(ss) \o Concat(Tail(ss))

(***************************************************************************)
(* The module-level state the DSL verbs read and write, as one record, so  *)
(* that the verbs are operators from state to state.                       *)
(***************************************************************************)
World ==
    [examples |-> examples, currentExample |-> currentExample,
     heap |-> heap, globalScope |-> globalScope]

Becomes(w) ==
    /\ examples' = w.examples
    /\ currentExample' = w.currentExample
    /\ heap' = w.heap
    /\ globalScope' = w.globalScope

Ok(w) == [w |-> w, err |-> ""]
Throws(w, e) == [w |-> w, err |-> e]

(***************************************************************************)
(* JavaScript conversions used by given().                                 *)
(***************************************************************************)
Digits == <<"1", "2", "3", "4", "5", "6", "7", "8", "9">>
NumberToString(n) == IF n = 0 THEN "0" ELSE Digits[n]

\* String(value), as "given " + arg does it.
toString(x) ==
    CASE x.t = "number" -> NumberToString(x.v[1])
      [] x.t = "boolean" -> IF x.v[1] THEN "true" ELSE "false"
      [] x.t = "null" -> "null"
      [] x.t = "undefined" -> "undefined"
      [] x.t = "array" ->
            Join([i \in 1..Len(x.v) |-> NumberToString(x.v[i])], ",")
      [] x.t = "object" ->
            IF x.v[1].t = "number" THEN NumberToString(x.v[1].v[1])
            ELSE IF x.v[1].v[1] THEN "true" ELSE "false"
      [] x.t = "global" -> "[object Window]"

\* The value of `this` inside a non-strict function called with thisArg x.
ThisBinding(x) ==
    CASE x.t \in {"null", "undefined"} -> GlobalObject
      [] x.t \in {"number", "boolean"} -> Boxed(x)
      [] OTHER -> x

isArray(x) == x.t = "array"

(***************************************************************************)
(* function example(parent): constructs an example, attached to its parent *)
(* or to the root list.  Returns the state after construction; the new     *)
(* object is the last one of the heap.                                     *)
(***************************************************************************)
example(w, parent) ==
    LET this == Len(w.heap) + 1
        attached ==
            IF parent # Null
            THEN [w EXCEPT !.heap[parent].children = Append(@, this)]
            ELSE [w EXCEPT !.examples = Append(@, this)]
    IN  [attached EXCEPT !.heap = Append(@,
            [parent   |-> parent,
             children |-> <<>>,
             name     |-> "",
             before   |-> Noop,
             after    |-> Noop,
             specs    |-> <<>>])]

(***************************************************************************)
(* rollup(prop): the values of one property from a node up to its root.    *)
(***************************************************************************)
RECURSIVE rollup(_, _, _)
rollup(h, node, prop) ==
    IF node = Null THEN <<>>
    ELSE <<h[node][prop]>> \o rollup(h, h[node].parent, prop)

\* befores without the reverse()
befores_unreversed(h, node) == rollup(h, node, "before")

befores(h, node) == Reverse(rollup(h, node, "before"))
afters(h, node) == rollup(h, node, "after")

\* names without the reverse()
names_unreversed(h, node) == Join(rollup(h, node, "name"), ", ")

names(h, node) == Join(Reverse(rollup(h, node, "name")), ", ")

(***************************************************************************)
(* api.describe, in two halves around the call of fn: the part before fn() *)
(* and the finally block.                                                  *)
(***************************************************************************)
\* describe building the example without moving the cursor to it
describe_cursorKept(w, description) ==
    LET built == example(w, w.currentExample)
    IN  [built EXCEPT !.heap[Len(built.heap)].name = description]

describe(w, description) ==
    LET built == example(w, w.currentExample)
        new == Len(built.heap)
    IN  [built EXCEPT !.currentExample = new,
                      !.heap[new].name = description]

\* describe without the restoring assignment
describeFinally_keep(w, originalExample) == w

\* describe restoring the cursor only when leaving a nested example
describeFinally_nestedOnly(w, originalExample) ==
    IF originalExample = Null THEN w
    ELSE [w EXCEPT !.currentExample = originalExample]

describeFinally(w, originalExample) ==
    [w EXCEPT !.currentExample = originalExample]

(***************************************************************************)
(* api.before, api.after: assignments to a property of currentExample,     *)
(* a TypeError when currentExample is null.                                *)
(***************************************************************************)
\* before keeping a hook that is already set
before_keepsFirst(w, fn) ==
    IF w.currentExample = Null THEN Throws(w, "TypeError")
    ELSE IF w.heap[w.currentExample].before # Noop THEN Ok(w)
    ELSE Ok([w EXCEPT !.heap[w.currentExample].before = fn])

before(w, fn) ==
    IF w.currentExample = Null THEN Throws(w, "TypeError")
    ELSE Ok([w EXCEPT !.heap[w.currentExample].before = fn])

after(w, fn) ==
    IF w.currentExample = Null THEN Throws(w, "TypeError")
    ELSE Ok([w EXCEPT !.heap[w.currentExample].after = fn])

(***************************************************************************)
(* api.it.  thisApi is assigned without a declaration, so it is a property *)
(* of the global object.  Without fn, it calls thisApi.it with a stub.     *)
(***************************************************************************)
SetGlobal(w, name, value) ==
    [w EXCEPT !.globalScope =
        [n \in DOMAIN @ \cup {name} |-> IF n = name THEN value ELSE @[n]]]

\* obj.prop is defined, for obj the api object or the global object.
Has(w, obj, prop) ==
    IF obj = "api" THEN prop \in ApiVerbs ELSE prop \in DOMAIN w.globalScope

\* push doing nothing when there is no cursor
push_silent(w, specification, fn) ==
    IF w.currentExample = Null THEN Ok(w)
    ELSE Ok([w EXCEPT !.heap[w.currentExample].specs =
                Append(@, <<specification, fn>>)])

push(w, specification, fn) ==
    IF w.currentExample = Null THEN Throws(w, "TypeError")
    ELSE Ok([w EXCEPT !.heap[w.currentExample].specs =
                Append(@, <<specification, fn>>)])

it(w, this, specification, fn) ==
    LET w1 == SetGlobal(w, "thisApi", this)
        stub == [kind |-> "stub", fn |-> "", arg |-> Undefined]
    IN  IF fn # NoFn THEN push(w1, specification, fn)
        ELSE IF ~Has(w1, this, "it") THEN Throws(w1, "TypeError")
        ELSE push(w1, specification, stub)

(***************************************************************************)
(* api.given(...).it: one call of this.it per argument, made with no       *)
(* receiver, each with its own arg taken from `this` of the $.each         *)
(* callback.                                                               *)
(***************************************************************************)
RECURSIVE givenIt(_, _, _, _)
givenIt(w, args, specification, fn) ==
    IF args = <<>> THEN Ok(w)
    ELSE LET arg == ThisBinding(Head(args))
             r == it(w, "globalScope",
                     "given " \o toString(arg) \o ", " \o specification,
                     [kind |-> "row", fn |-> fn, arg |-> arg])
         IN  IF r.err # "" THEN r
             ELSE givenIt(r.w, Tail(args), specification, fn)

(***************************************************************************)
(* compile(examples): depth-first flattening into QUnit statements.  A     *)
(* statement is a closure: what it captured is recorded here.              *)
(***************************************************************************)
moduleStatement(h, n) ==
    [type |-> "module", example |-> n, spec |-> <<>>,
     befores |-> befores(h, n), afters |-> afters(h, n)]

testStatement(h, n, i) ==
    [type |-> "test", example |-> n, spec |-> h[n].specs[i],
     befores |-> <<>>, afters |-> <<>>]

\* compileDescription recursing into the children before the specs
RECURSIVE compileDescription_childrenFirst(_, _)
compileDescription_childrenFirst(h, n) ==
    <<moduleStatement(h, n)>>
    \o Concat([c \in 1..Len(h[n].children) |->
                  compileDescription_childrenFirst(h, h[n].children[c])])
    \o [i \in 1..Len(h[n].specs) |-> testStatement(h, n, i)]

RECURSIVE compileDescription(_, _)
compileDescription(h, n) ==
    <<moduleStatement(h, n)>>
    \o [i \in 1..Len(h[n].specs) |-> testStatement(h, n, i)]
    \o Concat([c \in 1..Len(h[n].children) |->
                  compileDescription(h, h[n].children[c])])

\* compile walking the roots from the last to the first
compile_lastRootFirst(h, exs) ==
    Concat([r \in 1..Len(exs) |->
               compileDescription(h, exs[Len(exs) + 1 - r])])

compile(h, exs) ==
    Concat([r \in 1..Len(exs) |-> compileDescription(h, exs[r])])

(***************************************************************************)
(* The bundled assertions and addAssertions: one prototype method per      *)
(* implementation, named like it.                                          *)
(***************************************************************************)
assertions ==
    {"equals", "isEqualTo", "isNotEqualTo", "isSameAs", "isNotSameAs",
     "isTrue", "isFalse", "isNull", "isNotNull", "isDefined", "isUndefined",
     "pass", "fail", "throwsException"}

Builtin(name) == "assertions." \o name

addAssertions(proto, asserts) ==
    [n \in DOMAIN proto \cup DOMAIN asserts |->
        IF n \in DOMAIN asserts THEN asserts[n] ELSE proto[n]]

(***************************************************************************)
(* assertHandler: an object with one own property, value, and the verbs    *)
(* of the prototype.  handler[name] looks at own properties first.         *)
(***************************************************************************)
assertHandler(value) == [value |-> value]

Lookup(handler, proto, name) ==
    IF name \in DOMAIN handler THEN [from |-> "own", fn |-> ""]
    ELSE IF name \in DOMAIN proto THEN [from |-> "prototype", fn |-> proto[name]]
    ELSE [from |-> "nowhere", fn |-> ""]

NoCall == [verb |-> "", fn |-> "", args |-> <<>>, error |-> ""]

\* handler[name](): the prototype method prepends this.value to the
\* arguments and applies the implementation; anything else is not callable.
invoke(handler, proto, name) ==
    LET m == Lookup(handler, proto, name)
    IN  IF m.from = "prototype"
        THEN [verb |-> name, fn |-> m.fn, args |-> <<handler.value>>,
              error |-> ""]
        ELSE [verb |-> name, fn |-> "", args |-> <<>>, error |-> "TypeError"]

(***************************************************************************)
(* What QUnit does with a test body: the reports it receives through ok(), *)
(* the user functions called, and the error the body ends with, if any.    *)
(***************************************************************************)
Outcome(reports, calls, error) ==
    [reports |-> reports, calls |-> calls, error |-> error]

NoOutcome == Outcome(<<>>, <<>>, "")

\* (new assertHandler()).fail(message), through the prototype.
assertFail(proto, message) ==
    IF proto["fail"] = Builtin("fail")
    THEN Outcome(<<[ok |-> FALSE, message |-> message]>>, <<>>, "")
    ELSE Outcome(<<>>, <<[fn |-> proto["fail"],
                          args |-> <<Undefined, message>>]>>, "")

runBody(w, proto, body) ==
    CASE body.kind = "fn" ->
            Outcome(<<>>, <<[fn |-> body.fn, args |-> <<>>]>>, "")
      [] body.kind = "row" ->
            Outcome(<<>>,
                    <<[fn |-> body.fn,
                       args |-> IF isArray(body.arg)
                                THEN [i \in 1..Len(body.arg.v) |->
                                         Num(body.arg.v[i])]
                                ELSE <<body.arg>>]>>, "")
      [] body.kind = "stub" ->
            \* function(){ thisApi.assert.fail('Not Implemented'); }
            IF Has(w, w.globalScope["thisApi"], "assert")
            THEN assertFail(proto, "Not Implemented")
            ELSE Outcome(<<>>, <<>>, "TypeError")

(***************************************************************************)
(* $.each(qunitStatements, function(){ this(); }): the calls of module()   *)
(* and test() the statements make.  QUnit runs a test between the setup    *)
(* and the teardown of the module declared last.                           *)
(***************************************************************************)
NoModule == [call |-> "module", name |-> "", setup |-> <<>>,
             teardown |-> <<>>, outcome |-> NoOutcome]

RECURSIVE runStatements(_, _, _, _)
runStatements(stmts, w, proto, current) ==
    IF stmts = <<>> THEN <<>>
    ELSE LET s == Head(stmts)
             made ==
                IF s.type = "module"
                THEN [call |-> "module", name |-> names(w.heap, s.example),
                      setup |-> s.befores, teardown |-> s.afters,
                      outcome |-> NoOutcome]
                ELSE [call |-> "test", name |-> s.spec[1],
                      setup |-> current.setup, teardown |-> current.teardown,
                      outcome |-> runBody(w, proto, s.spec[2])]
         IN  <<made>> \o runStatements(Tail(stmts), w, proto,
                            IF s.type = "module" THEN made ELSE current)

(***************************************************************************)
(* specify, up to the call of the builder: the forest and the cursor are   *)
(* reset, and in global mode the api is copied onto the global object.     *)
(* The examples of the previous run are garbage once examples is reset.    *)
(***************************************************************************)
extendGlobal(w) ==
    [w EXCEPT !.globalScope =
        [n \in DOMAIN @ \cup ApiVerbs |->
            IF n \in ApiVerbs THEN "api." \o n ELSE @[n]]]

\* specify without examples = []
resetExamples_keep(w) == [w EXCEPT !.currentExample = Null]

resetExamples(w) == [w EXCEPT !.examples = <<>>, !.currentExample = Null]

Collect(w) == IF w.examples = <<>> THEN [w EXCEPT !.heap = <<>>] ELSE w

specifyBegin(w, global) ==
    LET w0 == Collect(resetExamples(w))
    IN  IF global THEN extendGlobal(w0) ELSE w0

\* The receiver of a verb the builder calls by its bare name: the global
\* object in global mode, the with(extraScope) object in scoped mode.
Receiver(global) == IF global THEN "globalScope" ELSE "api"

(***************************************************************************)
(* api.wait against QUnit's stop()/start() and globalObject.setTimeout.    *)
(* The engine record holds whether QUnit is paused, the clock and the      *)
(* pending timers of the global object, and a log of the signals and calls *)
(* made, each tagged with the wait() call it belongs to.                   *)
(***************************************************************************)
Delays == {1, 2}                    \* ms passed to wait()
WaitFns == {"returns", "throws"}    \* what the fn passed to wait() does

Loaded == [blocked |-> FALSE, clock |-> 0, timers |-> {}, waits |-> 0,
           log |-> <<>>]

Logged(e, event, id) == [e EXCEPT !.log = Append(@, [e |-> event, wait |-> id])]

stop(e, id) == [Logged(e, "stop", id) EXCEPT !.blocked = TRUE]
start(e, id) == [Logged(e, "start", id) EXCEPT !.blocked = FALSE]

setTimeout(e, id, fn, ms) ==
    [e EXCEPT !.timers = @ \cup {[wait |-> id, fn |-> fn, due |-> e.clock + ms]}]

wait(e, ms, fn) ==
    LET id == e.waits + 1
    IN  setTimeout(stop([e EXCEPT !.waits = id], id), id, fn, ms)

\* function(){ fn(); start(); } : an error thrown by fn leaves the callback
\* before start().
timerCallback(e, timer) ==
    LET called == Logged(e, "fn", timer.wait)
    IN  IF timer.fn = "throws" THEN Logged(called, "error", timer.wait)
        ELSE start(called, timer.wait)

\* The timer the global object runs next: the earliest due, the earliest
\* set among those.
NextTimer(e) ==
    CHOOSE t \in e.timers :
        \A u \in e.timers :
            t.due < u.due \/ (t.due = u.due /\ t.wait <= u.wait)

(***************************************************************************)
(* extendScope(fn, thisArg, extraScope): the builder's source is compiled  *)
(* again as                                                                *)
(*     new Function("extraScope, <params>", "with(extraScope){<body>}")    *)
(* so inside the body an identifier is looked up in extraScope (the api    *)
(* object) first, then among the function's parameters and var             *)
(* declarations, then on the global object.  A builder is given by the     *)
(* names of its parameters and of its var declarations.                    *)
(***************************************************************************)
Idents == {"it", "describe", "x"}       \* identifiers a builder body uses
Assigned == {"v1", "v2"}                \* values a builder body assigns
Builders ==
    {[params |-> <<>>, locals |-> {}],
     [params |-> <<"it">>, locals |-> {}],
     [params |-> <<"x">>, locals |-> {"describe"}],
     [params |-> <<>>, locals |-> {"x"}]}

\* var api = { describe: ..., before: ..., ... }
api == [n \in ApiVerbs |-> "api." \o n]

NoRead == [id |-> "", from |-> "", value |-> ""]

NoScope == [running |-> FALSE, extraScope |-> api, locals |-> <<>>,
            global |-> <<>>, read |-> NoRead]

\* The wrapper extendScope returns, called by specify with no arguments:
\* the parameters are bound to extraScope and to undefined, the var
\* declarations of the body are hoisted to the function.
extendScope(sc, fn) ==
    [sc EXCEPT
        !.running = TRUE,
        !.locals = [n \in {"extraScope"} \cup {fn.params[i] : i \in DOMAIN fn.params}
                            \cup fn.locals |->
                        IF n = "extraScope" THEN "api" ELSE "undefined"],
        !.read = NoRead]

\* Where with(extraScope){ ... id ... } finds id.
Resolve(sc, id) ==
    IF id \in DOMAIN sc.extraScope THEN "with"
    ELSE IF id \in DOMAIN sc.locals THEN "function"
    ELSE IF id \in DOMAIN sc.global THEN "global"
    ELSE "unresolvable"

\* Reading id in the body.
GetValue(sc, id) ==
    LET from == Resolve(sc, id)
    IN  [sc EXCEPT !.read =
            [id |-> id, from |-> from,
             value |-> CASE from = "with" -> sc.extraScope[id]
                         [] from = "function" -> sc.locals[id]
                         [] from = "global" -> sc.global[id]
                         [] OTHER -> "ReferenceError"]]

\* id = v in the body (also the initialiser of var id = v).
PutValue(sc, id, v) ==
    LET from == Resolve(sc, id)
    IN  CASE from = "with" -> [sc EXCEPT !.extraScope[id] = v]
          [] from = "function" -> [sc EXCEPT !.locals[id] = v]
          [] OTHER ->
                [sc EXCEPT !.global =
                    [n \in DOMAIN @ \cup {id} |-> IF n = id THEN v ELSE @[n]]]

(***************************************************************************)
(* assertions.throwsException(actual, message): actual() inside a try,     *)
(* ok(false) after it, ok(true) in the catch.                              *)
(***************************************************************************)
Fun(does) == [t |-> "function", v |-> <<does>>]
Callables == {Fun("returns"), Fun("throws Error"), Fun("throws 'oops'")}
Messages == {"m1", "m2"}

\* actual(): the error the call ends with, "" when it returns.
call(actual) ==
    IF actual.t # "function" THEN "TypeError"
    ELSE IF actual.v[1] = "returns" THEN ""
    ELSE actual.v[1]

ok(a, msg) == [ok |-> a, message |-> msg]

\* throwsException without the catch
throwsException_uncaught(actual, message) ==
    LET e == call(actual)
    IN  Outcome(IF e = "" THEN <<ok(FALSE, message)>> ELSE <<>>,
                <<[fn |-> actual, args |-> <<>>]>>, e)

throwsException(actual, message) ==
    LET e == call(actual)
        tried == IF e = "" THEN <<ok(FALSE, message)>> ELSE <<>>
        caught == IF e # "" THEN <<ok(TRUE, message)>> ELSE <<>>
    IN  Outcome(tried \o caught, <<[fn |-> actual, args |-> <<>>]>>, "")

(***************************************************************************)
(* Actions.                                                                *)
(***************************************************************************)
aside == <<engine, scope, verdict>>

Init ==
    /\ examples = <<>>
    /\ currentExample = Null
    /\ heap = <<>>
    /\ globalScope = <<>>
    /\ globalApi = FALSE
    /\ frames = <<>>
    /\ pc = "idle"
    /\ prototype = [n \in assertions |-> Builtin(n)]
    /\ handlers = {}
    /\ invoked = NoCall
    /\ executed = <<>>
    /\ qunit = <<>>
    /\ declared = [examples |-> 0, specs |-> 0, hooks |-> 0]
    /\ twin = World
    /\ thrownAt = <<>>
    /\ engine = Loaded
    /\ scope = NoScope
    /\ verdict = NoOutcome

Resting == pc \in {"idle", "done", "failed"}

\* QUnit.specify(name, fn) is called, with QUnit.specify.globalApi set to
\* global by the caller beforehand; control reaches the builder.
SpecifyBegin(global) ==
    /\ Resting
    /\ globalApi' = global
    /\ Becomes(specifyBegin(World, global))
    /\ twin' = specifyBegin(World, ~global)
    /\ pc' = "build"
    /\ executed' = <<>>
    /\ qunit' = <<>>
    /\ declared' = [examples |-> 0, specs |-> 0, hooks |-> 0]
    /\ thrownAt' = <<>>
    /\ UNCHANGED <<frames, prototype, handlers, invoked, aside>>

\* An error thrown in the body the builder is running leaves the innermost
\* describe call in progress through its finally block; with no describe
\* in progress it leaves the builder and specify, and nothing is compiled.
\* Thrown under a describe that detaches the example it built when its
\* body throws
Thrown_detaches(w, t) ==
    /\ thrownAt' = IF pc # "build" THEN thrownAt
                   ELSE IF frames = <<>> THEN <<Null>>
                   ELSE <<frames[Len(frames)].example>>
    /\ IF frames = <<>>
       THEN /\ Becomes(w)
            /\ twin' = t
            /\ pc' = "failed"
            /\ UNCHANGED frames
       ELSE LET top == frames[Len(frames)]
                detach(x) ==
                    IF top.originalExample = Null
                    THEN [x EXCEPT !.examples = SubSeq(@, 1, Len(@) - 1)]
                    ELSE [x EXCEPT !.heap[top.originalExample].children =
                                      SubSeq(@, 1, Len(@) - 1)]
            IN  /\ Becomes(detach(describeFinally(w, top.originalExample)))
                /\ twin' = detach(describeFinally(t, top.originalExample))
                /\ pc' = "unwinding"
                /\ frames' = SubSeq(frames, 1, Len(frames) - 1)

Thrown(w, t) ==
    /\ thrownAt' = IF pc # "build" THEN thrownAt
                   ELSE IF frames = <<>> THEN <<Null>>
                   ELSE <<frames[Len(frames)].example>>
    /\ IF frames = <<>>
       THEN /\ Becomes(w)
            /\ twin' = t
            /\ pc' = "failed"
            /\ UNCHANGED frames
       ELSE /\ Becomes(describeFinally(w, frames[Len(frames)].originalExample))
            /\ twin' = describeFinally(t, frames[Len(frames)].originalExample)
            /\ pc' = "unwinding"
            /\ frames' = SubSeq(frames, 1, Len(frames) - 1)

\* A verb called by the builder: r is what it does here, t what it does
\* under the other scope mode.
Called(r, t) ==
    /\ IF r.err = ""
       THEN Becomes(r.w) /\ twin' = t.w /\ thrownAt' = <<>>
            /\ UNCHANGED <<pc, frames>>
       ELSE Thrown(r.w, t.w)
    /\ UNCHANGED <<globalApi, prototype, handlers, invoked, executed, qunit,
                   aside>>

Describe(description) ==
    /\ pc = "build"
    /\ declared.examples < MaxNodes
    /\ Becomes(describe(World, description))
    /\ twin' = describe(twin, description)
    /\ frames' = Append(frames, [originalExample |-> currentExample,
                                 example |-> Len(heap) + 1])
    /\ declared' = [declared EXCEPT !.examples = @ + 1]
    /\ thrownAt' = <<>>
    /\ UNCHANGED <<globalApi, pc, prototype, handlers, invoked, executed, qunit,
                   aside>>

\* fn() returned: the finally block of describe, then describe returns.
DescribeReturn ==
    /\ pc = "build"
    /\ frames # <<>>
    /\ Becomes(describeFinally(World, frames[Len(frames)].originalExample))
    /\ twin' = describeFinally(twin, frames[Len(frames)].originalExample)
    /\ frames' = SubSeq(frames, 1, Len(frames) - 1)
    /\ UNCHANGED <<globalApi, pc, prototype, handlers, invoked, executed, qunit,
                   declared, thrownAt, aside>>

Before(fn) ==
    /\ pc = "build"
    /\ declared.hooks < MaxHooks
    /\ Called(before(World, fn), before(twin, fn))
    /\ declared' = [declared EXCEPT !.hooks = @ + 1]

After(fn) ==
    /\ pc = "build"
    /\ declared.hooks < MaxHooks
    /\ Called(after(World, fn), after(twin, fn))
    /\ declared' = [declared EXCEPT !.hooks = @ + 1]

Room(n) == declared.specs + n <= MaxSpecs

It(specification, fn) ==
    /\ pc = "build"
    /\ Room(1)
    /\ LET r == it(World, Receiver(globalApi), specification, fn)
       IN  /\ Called(r, it(twin, Receiver(~globalApi), specification, fn))
           /\ declared' = [declared EXCEPT
                             !.specs = IF r.err = "" THEN @ + 1 ELSE @]

GivenIt(args, specification, fn) ==
    /\ pc = "build"
    /\ Room(Len(args))
    /\ LET r == givenIt(World, args, specification, fn)
       IN  /\ Called(r, givenIt(twin, args, specification, fn))
           /\ declared' = [declared EXCEPT
                             !.specs = IF r.err = "" THEN @ + Len(args) ELSE @]

\* Raise under a specify that compiles and runs what was declared although
\* the builder threw
Raise_thenCompiles ==
    /\ pc = "build"
    /\ Thrown(World, twin)
    /\ executed' = compile(heap, examples)
    /\ qunit' = runStatements(compile(heap, examples), World, prototype,
                              NoModule)
    /\ UNCHANGED <<globalApi, prototype, handlers, invoked, declared, aside>>

\* The builder's own code raises an error in the body it is running.
Raise ==
    /\ pc = "build"
    /\ Thrown(World, twin)
    /\ UNCHANGED <<globalApi, prototype, handlers, invoked, executed, qunit,
                   declared, aside>>

\* The error reached the body of an enclosing describe, or of the builder:
\* a try/catch there catches it ...
Catch ==
    /\ pc = "unwinding"
    /\ pc' = "build"
    /\ UNCHANGED <<examples, currentExample, heap, globalScope, globalApi,
                   frames, prototype, handlers, invoked, executed, qunit,
                   declared, twin, thrownAt, aside>>

\* ... or it goes on propagating.
Propagate ==
    /\ pc = "unwinding"
    /\ Thrown(World, twin)
    /\ UNCHANGED <<globalApi, prototype, handlers, invoked, executed, qunit,
                   declared, aside>>

\* QUnit.specify.extendAssertions(asserts)
ExtendAssertions(asserts) ==
    /\ prototype' = addAssertions(prototype, asserts)
    /\ UNCHANGED <<examples, currentExample, heap, globalScope, globalApi,
                   frames, pc, handlers, invoked, executed, qunit, declared,
                   twin, thrownAt, aside>>

\* api.assert(value)
ApiAssert(value) ==
    /\ handlers' = handlers \cup {assertHandler(value)}
    /\ UNCHANGED <<examples, currentExample, heap, globalScope, globalApi,
                   frames, pc, prototype, invoked, executed, qunit, declared,
                   twin, thrownAt, aside>>

\* handler[name]() on a handler assert() returned earlier
Invoke(handler, name) ==
    /\ invoked' = invoke(handler, prototype, name)
    /\ UNCHANGED <<examples, currentExample, heap, globalScope, globalApi,
                   frames, pc, prototype, handlers, executed, qunit, declared,
                   twin, thrownAt, aside>>

\* The builder returned: compile(examples) and run the statements.
SpecifyEnd ==
    /\ pc = "build"
    /\ frames = <<>>
    /\ executed' = compile(heap, examples)
    /\ qunit' = runStatements(compile(heap, examples), World, prototype,
                              NoModule)
    /\ pc' = "done"
    /\ UNCHANGED <<examples, currentExample, heap, globalScope, globalApi,
                   frames, prototype, handlers, invoked, declared, twin,
                   thrownAt, aside>>

Next ==
    \/ \E global \in BOOLEAN : SpecifyBegin(global)
    \/ \E d \in {Names[declared.examples + 1]} : Describe(d)
    \/ DescribeReturn
    \/ \E fn \in {Hooks[declared.hooks + 1]} : Before(fn)
    \/ \E fn \in {Hooks[declared.hooks + 1]} : After(fn)
    \/ \E fn \in {NoFn} \cup {[kind |-> "fn", fn |-> f, arg |-> Undefined] : f \in Fns} :
          It("x", fn)
    \/ \E args \in GivenArgs : \E f \in Fns : GivenIt(args, "adds", f)
    \/ \E f \in Fns : GivenIt(<<>>, "adds", f)
    \/ Raise
    \/ Catch
    \/ Propagate
    \/ SpecifyEnd
    \/ \E asserts \in {[n \in {"fail"} |-> "custom1"]} : ExtendAssertions(asserts)

Spec == Init /\ [][Next]_vars

(***************************************************************************)
(* The assertion side on its own: registrations, handlers, invocations.    *)
(***************************************************************************)
Verbs == {"isTrue", "fail", "isPositive", "value"}

NextAssert ==
    \/ \E asserts \in Customs : ExtendAssertions(asserts)
    \/ \E value \in Subjects : ApiAssert(value)
    \/ \E handler \in handlers : \E name \in Verbs : Invoke(handler, name)

SpecAssert == Init /\ [][NextAssert]_vars

(***************************************************************************)
(* wait() and the timers on their own.                                     *)
(***************************************************************************)
\* api.wait(ms, fn)
Wait(ms, fn) ==
    /\ engine.waits < MaxWaits
    /\ engine' = wait(engine, ms, fn)
    /\ UNCHANGED <<builderVars, scope, verdict>>

\* Time passes on the global object's clock while a timer is not yet due.
Tick ==
    /\ engine.timers # {}
    /\ engine.clock < NextTimer(engine).due
    /\ engine' = [engine EXCEPT !.clock = @ + 1]
    /\ UNCHANGED <<builderVars, scope, verdict>>

\* The global object runs the callback of a timer that is due.
Fire ==
    /\ engine.timers # {}
    /\ engine.clock >= NextTimer(engine).due
    /\ engine' = timerCallback(
                    [engine EXCEPT !.timers = @ \ {NextTimer(engine)}],
                    NextTimer(engine))
    /\ UNCHANGED <<builderVars, scope, verdict>>

NextWait ==
    \/ \E ms \in Delays : \E fn \in WaitFns : Wait(ms, fn)
    \/ Tick
    \/ Fire

\* The timers of the global object fire: time passes and due callbacks run.
SpecWait == Init /\ [][NextWait]_vars /\ WF_vars(Tick) /\ WF_vars(Fire)

(***************************************************************************)
(* A builder run in scoped mode, as far as its identifiers go.             *)
(***************************************************************************)
\* specify in scoped mode: extendScope(fn, this, api)()
ScopedRun(fn) ==
    /\ scope' = extendScope(scope, fn)
    /\ UNCHANGED <<builderVars, engine, verdict>>

\* The body reads an identifier.
Read(id) ==
    /\ scope.running
    /\ scope' = GetValue(scope, id)
    /\ UNCHANGED <<builderVars, engine, verdict>>

\* The body assigns to an identifier.
Assign(id, v) ==
    /\ scope.running
    /\ scope' = PutValue(scope, id, v)
    /\ UNCHANGED <<builderVars, engine, verdict>>

NextScope ==
    \/ \E fn \in Builders : ScopedRun(fn)
    \/ \E id \in Idents : Read(id)
    \/ \E id \in Idents : \E v \in Assigned : Assign(id, v)

SpecScope == Init /\ [][NextScope]_vars

(***************************************************************************)
(* The throwsException verb on handlers of callables and other values.     *)
(***************************************************************************)
\* assert(actual).throwsException(message)
InvokeThrows(handler, message) ==
    /\ Lookup(handler, prototype, "throwsException").fn
          = Builtin("throwsException")
    /\ verdict' = throwsException(handler.value, message)
    /\ UNCHANGED <<builderVars, engine, scope>>

NextThrows ==
    \/ \E value \in Callables \cup Subjects : ApiAssert(value)
    \/ \E handler \in handlers : \E message \in Messages :
          InvokeThrows(handler, message)

SpecThrows == Init /\ [][NextThrows]_vars

(***************************************************************************)
(* The shape of a forest, read off the parent and children links.          *)
(***************************************************************************)
Nodes == DOMAIN heap

RECURSIVE Depth(_)
Depth(n) == IF heap[n].parent = Null THEN 1 ELSE 1 + Depth(heap[n].parent)

\* The k-th ancestor of n; n itself for k = 0.
RECURSIVE Ancestor(_, _)
Ancestor(n, k) == IF k = 0 THEN n ELSE Ancestor(heap[n].parent, k - 1)

IsDescendant(n, m) == \E k \in 1..(Depth(n) - 1) : Ancestor(n, k) = m

\* The number of statements of a subtree, and of a list of subtrees.
RECURSIVE Size(_)
RECURSIVE Sizes(_)
Size(n) == 1 + Len(heap[n].specs) + Sizes(heap[n].children)
Sizes(ns) == IF ns = <<>> THEN 0 ELSE Size(Head(ns)) + Sizes(Tail(ns))

Before_(ns, n) == SubSeq(ns, 1, (CHOOSE i \in 1..Len(ns) : ns[i] = n) - 1)

\* Where pre-order puts the declare-group statement of n.
RECURSIVE Position(_)
Position(n) ==
    IF heap[n].parent = Null
    THEN 1 + Sizes(Before_(examples, n))
    ELSE LET p == heap[n].parent
         IN  Position(p) + Len(heap[p].specs) + 1
                + Sizes(Before_(heap[p].children, n))

Tests == {k \in 1..Len(executed) : executed[k].type = "test"}
Modules == {k \in 1..Len(executed) : executed[k].type = "module"}

(***************************************************************************)
(* C1: when specify has compiled the forest, the statements are the        *)
(* depth-first pre-order sequence: the declare-group statement of a node   *)
(* sits right after everything that precedes the node in pre-order, its    *)
(* specs' test statements follow it in declaration order, then the         *)
(* subtrees of its children in declaration order; every node has exactly   *)
(* one declare-group statement and every spec exactly one test statement.  *)
(***************************************************************************)
C1_CompilePreOrder ==
    pc = "done" =>
        /\ Len(executed) = Sizes(examples)
        /\ \A n \in Nodes :
            /\ executed[Position(n)].type = "module"
            /\ executed[Position(n)].example = n
            /\ Cardinality({k \in Modules : executed[k].example = n}) = 1
            /\ Cardinality({k \in Tests : executed[k].example = n})
                  = Len(heap[n].specs)
            /\ \A j \in 1..Len(heap[n].specs) :
                /\ executed[Position(n) + j].type = "test"
                /\ executed[Position(n) + j].example = n
                /\ executed[Position(n) + j].spec = heap[n].specs[j]

\* A compiled forest of three examples: a root holding a spec and a child
\* that holds a spec, and another root.
C1_Witness ==
    /\ pc = "done"
    /\ Len(examples) = 2
    /\ \E n \in Nodes :
        /\ heap[n].parent # Null
        /\ heap[n].specs # <<>>
        /\ heap[heap[n].parent].specs # <<>>

(***************************************************************************)
(* C2: in the compiled statements, the declare-group statement that most   *)
(* recently precedes a test statement is the one of the example whose      *)
(* specs hold that spec, and the tests of an example precede the tests of  *)
(* all its descendants.                                                    *)
(***************************************************************************)
LastModuleBefore(k) ==
    CHOOSE d \in Modules : d < k /\ \A e \in Modules : e < k => e <= d

C2_TestsFollowOwnGroup ==
    pc = "done" =>
        /\ \A k \in Tests :
            /\ \E d \in Modules : d < k
            /\ executed[LastModuleBefore(k)].example = executed[k].example
        /\ \A k1, k2 \in Tests :
            IsDescendant(executed[k2].example, executed[k1].example) => k1 < k2

\* A compiled example holding a spec next to a nested example with a spec.
C2_Witness ==
    /\ pc = "done"
    /\ \E k1, k2 \in Tests :
        IsDescendant(executed[k2].example, executed[k1].example)

(***************************************************************************)
(* C3: for every example, befores() lists the before hooks of the path     *)
(* from the root down to the example and afters() the after hooks from the *)
(* example up to the root; the module() call made for the example gets     *)
(* exactly these as its setup and teardown.                                *)
(***************************************************************************)
SetupOrder(n) == [i \in 1..Depth(n) |-> heap[Ancestor(n, Depth(n) - i)].before]
TeardownOrder(n) == [i \in 1..Depth(n) |-> heap[Ancestor(n, i - 1)].after]

C3_HooksRootFirstThenLeafFirst ==
    /\ \A n \in Nodes :
        /\ befores(heap, n) = SetupOrder(n)
        /\ afters(heap, n) = TeardownOrder(n)
    /\ pc = "done" =>
        \A k \in Modules :
            /\ qunit[k].call = "module"
            /\ qunit[k].setup = SetupOrder(executed[k].example)
            /\ qunit[k].teardown = TeardownOrder(executed[k].example)

\* A compiled nested example whose parent and itself both set a before hook.
C3_Witness ==
    /\ pc = "done"
    /\ \E k \in Modules :
        LET n == executed[k].example
        IN  /\ heap[n].parent # Null
            /\ heap[n].before # Noop
            /\ heap[heap[n].parent].before # Noop
            /\ qunit[k].setup = <<heap[heap[n].parent].before, heap[n].before>>

(***************************************************************************)
(* C4: when an error leaves a describe call, the cursor is what it was     *)
(* before the call, that is the parent of the example the call built (none *)
(* for a root); an example declared next gets as parent the example of the *)
(* innermost describe still in progress.                                   *)
(***************************************************************************)
Innermost(fs) == IF fs = <<>> THEN Null ELSE fs[Len(fs)].example

C4_CursorRestoredOnThrow ==
    [][/\ (pc' \in {"unwinding"} /\ Len(frames') < Len(frames)) =>
            currentExample' = heap[Innermost(frames)].parent
       /\ (pc = "build" /\ Len(heap') = Len(heap) + 1) =>
            heap'[Len(heap')].parent = Innermost(frames)]_vars

\* An error has just left a nested describe: the cursor is the enclosing
\* example, which holds the failed example as a child.
C4_Witness ==
    /\ pc = "unwinding"
    /\ frames # <<>>
    /\ currentExample = Innermost(frames)
    /\ heap[currentExample].children # <<>>

(***************************************************************************)
(* C5: the test of a spec declared by it() without a body reports exactly  *)
(* one failure, "Not Implemented", and nothing else (with the bundled fail *)
(* assertion in place), in either scope mode and whatever the builder      *)
(* called besides.                                                         *)
(***************************************************************************)
C5_StubReportsNotImplemented ==
    (pc = "done" /\ prototype["fail"] = Builtin("fail")) =>
        \A k \in Tests :
            executed[k].spec[2].kind = "stub" =>
                qunit[k].outcome =
                    Outcome(<<[ok |-> FALSE, message |-> "Not Implemented"]>>,
                            <<>>, "")

(***************************************************************************)
(* C6: given(a1, ..., an).it(desc, fn) appends n specs to the cursor       *)
(* example, in argument order; the i-th is described "given " + ai + ", "  *)
(* + desc and its body calls fn with the elements of ai when ai is an      *)
(* array and with ai itself otherwise.                                     *)
(***************************************************************************)
Spread(a) == IF isArray(a) THEN [i \in 1..Len(a.v) |-> Num(a.v[i])] ELSE <<a>>

C6_GivenExpandsPerArgument ==
    [][\A args \in GivenArgs : \A f \in Fns :
        (GivenIt(args, "adds", f) /\ pc' = "build") =>
            LET old == heap[currentExample].specs
                new == heap'[currentExample].specs
            IN  /\ Len(new) = Len(old) + Len(args)
                /\ SubSeq(new, 1, Len(old)) = old
                /\ \A i \in 1..Len(args) :
                    /\ new[Len(old) + i][1] =
                          "given " \o toString(args[i]) \o ", " \o "adds"
                    /\ runBody(World', prototype, new[Len(old) + i][2]).calls
                          = <<[fn |-> f, args |-> Spread(args[i])]>>]_vars

(***************************************************************************)
(* C7: a builder run in one scope mode hands QUnit the same statements as  *)
(* the same builder run in the other mode: same module names, setups and   *)
(* teardowns, same test descriptions, and bodies that do the same.         *)
(***************************************************************************)
C7_ModesCompileAlike ==
    [][(pc = "build" /\ pc' = "done") =>
        /\ executed' = compile(twin.heap, twin.examples)
        /\ qunit' = runStatements(compile(twin.heap, twin.examples), twin,
                                  prototype, NoModule)]_vars

(***************************************************************************)
(* C8: in a scoped run, with the api never copied onto the global object   *)
(* before, no call the builder makes and no step of specify creates or     *)
(* changes a binding of the global object.                                 *)
(***************************************************************************)
C8_ScopedLeavesGlobalAlone ==
    [][(/\ pc = "build"
        /\ pc' \in {"build", "done"}
        /\ ~globalApi
        /\ ApiVerbs \cap DOMAIN globalScope = {}) =>
            globalScope' = globalScope]_vars

(***************************************************************************)
(* C9: specify starts its builder on an empty forest with no cursor; the   *)
(* statements it runs are those of the examples and specs its own builder  *)
(* declared; and no step of specify changes the assertHandler prototype.   *)
(***************************************************************************)
C9_RunsStartEmptyRegistryStays ==
    [][/\ (Resting /\ pc' = "build") =>
            (examples' = <<>> /\ currentExample' = Null)
       /\ (pc = "build" /\ pc' = "done") =>
            /\ Len(executed') = declared.examples + declared.specs
            /\ \A k \in 1..Len(executed') :
                executed'[k].example \in 1..declared.examples
       /\ (pc' # pc \/ World' # World \/ executed' # executed) =>
            prototype' = prototype]_vars

\* A scoped run that followed a global one and a registration has compiled
\* the examples it declared.
C9_Witness ==
    /\ pc = "done"
    /\ ~globalApi
    /\ "describe" \in DOMAIN globalScope
    /\ prototype["fail"] # Builtin("fail")
    /\ declared.examples > 0
    /\ Len(executed) = declared.examples + declared.specs

(***************************************************************************)
(* C10: once extendAssertions has registered implementations, every        *)
(* handler resolves each registered verb to the implementation just        *)
(* registered, no other verb changes, and a handler created later resolves *)
(* every verb of the prototype to its implementation.                      *)
(***************************************************************************)
Resolves(handler, proto, name, fn) ==
    invoke(handler, proto, name).fn = fn /\ invoke(handler, proto, name).error = ""

C10_HandlersSeeRegistrations ==
    [][/\ \A asserts \in Customs :
            ExtendAssertions(asserts) =>
                /\ \A h \in handlers : \A n \in DOMAIN asserts :
                      Resolves(h, prototype', n, asserts[n])
                /\ \A n \in DOMAIN prototype \ DOMAIN asserts :
                      prototype'[n] = prototype[n]
       /\ \A h \in handlers' \ handlers : \A n \in DOMAIN prototype :
            Resolves(h, prototype, n, prototype[n])]_vars

(***************************************************************************)
(* C11: every wait(ms, fn) call signals the engine to pause before         *)
(* anything else; when its timer has fired, fn has been invoked exactly    *)
(* once and the engine signalled to resume exactly once for that call,     *)
(* whatever fn does; so every pause caused by wait is eventually followed  *)
(* by a resume, the timers firing.                                         *)
(***************************************************************************)
Count(event, id) ==
    Cardinality({k \in 1..Len(engine.log) :
                    engine.log[k] = [e |-> event, wait |-> id]})

Pending(id) == \E t \in engine.timers : t.wait = id

C11_WaitPausesThenResumes ==
    /\ [][\A ms \in Delays : \A fn \in WaitFns :
            Wait(ms, fn) =>
                /\ engine'.log = Append(engine.log,
                                        [e |-> "stop", wait |-> engine'.waits])
                /\ engine'.blocked]_vars
    /\ [](\A id \in 1..engine.waits :
            ~Pending(id) => (Count("fn", id) = 1 /\ Count("start", id) = 1))
    /\ \A id \in 1..MaxWaits :
            (Count("stop", id) = 1) ~> (Count("start", id) = 1)

(***************************************************************************)
(* C12: in a scoped run, an identifier the builder binds itself (a         *)
(* parameter or a var) under the name of a DSL verb reads as the builder's *)
(* own binding, and assigning to it sets that binding and leaves the verbs *)
(* of the api as they were; a verb name the builder does not bind reads as *)
(* the DSL verb.                                                           *)
(***************************************************************************)
Own(id) == id \in DOMAIN scope.locals

C12_LocalBindingsShadowVerbs ==
    [][/\ \A id \in Idents \cap ApiVerbs :
            Read(id) =>
                scope'.read.value =
                    IF Own(id) THEN scope.locals[id] ELSE api[id]
       /\ \A id \in Idents \cap ApiVerbs : \A v \in Assigned :
            (Assign(id, v) /\ Own(id)) =>
                /\ scope'.extraScope = scope.extraScope
                /\ scope'.locals[id] = v]_vars

(***************************************************************************)
(* C16: a call of the throwsException verb calls the subject exactly once  *)
(* and reports exactly one result, a pass when the call of the subject     *)
(* raised an error and a fail when it returned; no error leaves the verb.  *)
(***************************************************************************)
C16_ThrowsExceptionReportsOnce ==
    [][\A h \in handlers : \A m \in Messages :
        InvokeThrows(h, m) =>
            /\ verdict'.calls = <<[fn |-> h.value, args |-> <<>>]>>
            /\ verdict'.reports =
                  <<[ok |-> (h.value # Fun("returns")), message |-> m]>>
            /\ verdict'.error = ""]_vars

\* The verb has been invoked on a function that throws, and reported a pass.
C16_Witness ==
    /\ verdict.calls = <<[fn |-> Fun("throws Error"), args |-> <<>>]>>
    /\ verdict.reports = <<[ok |-> TRUE, message |-> "m1"]>>
    /\ verdict.error = ""

(***************************************************************************)
(* C13: the name of an example is the description passed to the describe   *)
(* call that created it, and names() of an example at any depth is the     *)
(* names on the path from its root down to it, joined with ", ".           *)
(***************************************************************************)
RECURSIVE QualifiedName(_)
QualifiedName(n) ==
    IF heap[n].parent = Null THEN heap[n].name
    ELSE QualifiedName(heap[n].parent) \o ", " \o heap[n].name

C13_NamesJoinRootPath ==
    /\ [](/\ \A n \in Nodes : names(heap, n) = QualifiedName(n)
          /\ pc = "done" =>
                \A k \in Modules :
                    qunit[k].name = QualifiedName(executed[k].example))
    /\ [][/\ \A i \in DOMAIN Names :
               Describe(Names[i]) => heap'[Len(heap')].name = Names[i]
          /\ (pc' \in {"build", "unwinding"} /\ pc \in {"build", "unwinding"}) =>
               \A n \in Nodes : heap'[n].name = heap[n].name]_vars

\* An example three describe calls deep, named after its path.
C13_Witness ==
    \E n \in Nodes :
        /\ Depth(n) = 3
        /\ names(heap, n) = "a, b, c"
        /\ heap[n].name = "c"

(***************************************************************************)
(* C14: when an error raised by the builder, under any number of open      *)
(* describe calls, has made specify fail, the cursor is none, as at the    *)
(* start of the run: a describe called next creates a root example with no *)
(* parent.                                                                 *)
(***************************************************************************)
C14_CursorNoneAfterFailure ==
    pc = "failed" =>
        /\ currentExample = Null
        /\ LET next == describe(World, "a")
               new == Len(next.heap)
           IN  /\ next.heap[new].parent = Null
               /\ next.examples = Append(examples, new)
               /\ \A n \in Nodes : next.heap[n] = heap[n]

\* specify has failed on an error raised two or more describe calls deep.
C14_Witness ==
    /\ pc = "failed"
    /\ thrownAt # <<>>
    /\ thrownAt[1] # Null
    /\ Depth(thrownAt[1]) >= 2
    /\ currentExample = Null

(***************************************************************************)
(* C15: while a builder runs, the cursor is the example of the innermost   *)
(* describe call in progress (none when there is none) and the parent      *)
(* links from the cursor up to a root list exactly the examples of the     *)
(* describe calls in progress, innermost first; a describe call attaches   *)
(* its example as last child of the cursor, or as last root when the       *)
(* cursor is none.                                                         *)
(***************************************************************************)
RECURSIVE ParentChain(_)
ParentChain(n) == IF n = Null THEN <<>> ELSE <<n>> \o ParentChain(heap[n].parent)

OpenDescribes == [i \in 1..Len(frames) |-> frames[Len(frames) + 1 - i].example]

C15_CursorIsInnermostDescribe ==
    /\ [](pc \in {"build", "unwinding"} =>
            /\ currentExample = Innermost(frames)
            /\ ParentChain(currentExample) = OpenDescribes)
    /\ [][\A i \in DOMAIN Names :
            Describe(Names[i]) =>
                LET new == Len(heap')
                IN  /\ new = Len(heap) + 1
                    /\ heap'[new].parent = currentExample
                    /\ IF currentExample = Null
                       THEN examples' = Append(examples, new)
                       ELSE /\ heap'[currentExample].children =
                                  Append(heap[currentExample].children, new)
                            /\ examples' = examples]_vars

\* Inside the second nested describe of a root describe, the first one
\* having returned.
C15_Witness ==
    /\ pc = "build"
    /\ Len(frames) = 2
    /\ currentExample = frames[2].example
    /\ Len(heap[frames[1].example].children) = 2

(***************************************************************************)
(* C17: an example holds one before and one after hook, a no-op until set: *)
(* before(fn) and after(fn) replace the hook of the cursor example and     *)
(* change nothing else, however often they are called in one describe      *)
(* body; so for every example befores() and afters() are as long as the    *)
(* example is deep.                                                        *)
(***************************************************************************)
C17_OneHookPerExample ==
    /\ [](\A n \in Nodes :
            /\ Len(befores(heap, n)) = Depth(n)
            /\ Len(afters(heap, n)) = Depth(n))
    /\ [][/\ \A i \in DOMAIN Hooks :
               /\ (Before(Hooks[i]) /\ pc' = "build") =>
                       heap' = [heap EXCEPT ![currentExample].before = Hooks[i]]
               /\ (After(Hooks[i]) /\ pc' = "build") =>
                       heap' = [heap EXCEPT ![currentExample].after = Hooks[i]]
          /\ \A i \in DOMAIN Names :
               Describe(Names[i]) =>
                   /\ heap'[Len(heap')].before = Noop
                   /\ heap'[Len(heap')].after = Noop]_vars

\* before() was called twice in the body of the only describe: the example
\* holds the second hook.
C17_Witness ==
    /\ pc = "build"
    /\ Len(heap) = 1
    /\ declared.hooks = 2
    /\ heap[1].before = Hooks[2]
    /\ heap[1].after = Noop
    /\ befores(heap, 1) = <<Hooks[2]>>

(***************************************************************************)
(* C18: when the builder has raised an error and specify has failed,       *)
(* nothing has been compiled and no module() or test() call of this run    *)
(* has been made, also for the examples and specs declared in full before  *)
(* the error.                                                              *)
(***************************************************************************)
C18_FailedRunExecutesNothing ==
    pc = "failed" => (executed = <<>> /\ qunit = <<>>)

\* specify has failed on an error raised in the builder after a describe
\* holding a spec had returned.
C18_Witness ==
    /\ pc = "failed"
    /\ thrownAt = <<Null>>
    /\ examples # <<>>
    /\ heap[examples[1]].specs # <<>>
    /\ qunit = <<>>

(***************************************************************************)
(* C19: an error leaving a describe call rolls nothing back: the example   *)
(* of the call stays attached to its parent (or to the roots) with the     *)
(* hooks, specs and children declared before the error, an example whose   *)
(* describe call is over never changes again, and when the builder caught  *)
(* the error and specify goes on to compile, the statements hold the       *)
(* declare-group statement of the failed example and the tests of its      *)
(* specs at its place in declaration order.                                *)
(***************************************************************************)
Attached(h, exs, n) ==
    IF h[n].parent = Null
    THEN \E r \in DOMAIN exs : exs[r] = n
    ELSE \E c \in DOMAIN h[h[n].parent].children :
            h[h[n].parent].children[c] = n

Open == {frames[i].example : i \in DOMAIN frames}

C19_FailedExampleStaysDeclared ==
    /\ [][/\ (pc' = "unwinding" /\ Len(frames') < Len(frames)) =>
               /\ heap' = heap
               /\ examples' = examples
               /\ Attached(heap', examples', Innermost(frames))
          /\ (pc = "unwinding" /\ pc' = "build") =>
               (heap' = heap /\ examples' = examples)
          /\ (pc \in {"build", "unwinding"}) =>
               \A n \in Nodes \ Open :
                   /\ heap'[n] = heap[n]
                   /\ Attached(heap', examples', n)]_vars
    /\ [](pc = "done" =>
            /\ Len(heap) = declared.examples
            /\ (thrownAt # <<>> /\ thrownAt[1] # Null) =>
                LET n == thrownAt[1]
                IN  /\ executed[Position(n)] = moduleStatement(heap, n)
                    /\ \A j \in 1..Len(heap[n].specs) :
                          executed[Position(n) + j] = testStatement(heap, n, j))

\* The builder caught an error raised in the body of a nested describe
\* after a before() and an it(); specify has compiled the forest, the
\* failed example with its hook and its spec included.
C19_Witness ==
    /\ pc = "done"
    /\ thrownAt # <<>>
    /\ thrownAt[1] # Null
    /\ LET n == thrownAt[1]
       IN  /\ heap[n].parent # Null
           /\ heap[n].before # Noop
           /\ heap[n].specs # <<>>
           /\ executed[Position(n)].example = n
           /\ executed[Position(n) + 1].spec = heap[n].specs[1]
           /\ qunit[Position(n)].setup = <<Noop, heap[n].before>>

(***************************************************************************)
(* C20: while no describe call is in progress (the cursor is none),        *)
(* before(), after(), it() and given(a1, ..., an).it() with n >= 1 raise   *)
(* an error and leave the roots, every example and the cursor as they      *)
(* were.                                                                   *)
(***************************************************************************)
RaisesAndKeeps(r) ==
    /\ r.err # ""
    /\ r.w.examples = examples
    /\ r.w.heap = heap
    /\ r.w.currentExample = currentExample

OutsideDescribe(givens) ==
    (pc = "build" /\ currentExample = Null) =>
        /\ \A i \in DOMAIN Hooks :
              /\ RaisesAndKeeps(before(World, Hooks[i]))
              /\ RaisesAndKeeps(after(World, Hooks[i]))
        /\ \A fn \in ItBodies :
              RaisesAndKeeps(it(World, Receiver(globalApi), "x", fn))
        /\ \A args \in givens : \A f \in Fns :
              RaisesAndKeeps(givenIt(World, args, "adds", f))

C20_VerbsOutsideDescribeRaise ==
    /\ OutsideDescribe(GivenArgs)
    /\ \A args \in GivenArgs : args # <<>>

(***************************************************************************)
(* C20 as stated: the same for every given(...).it(), given() with no      *)
(* argument included.                                                      *)
(***************************************************************************)
C20_AnyGivenOutsideDescribeRaises ==
    OutsideDescribe(GivenArgs \cup {<<>>})

\* specify has failed on an it() or given().it() called outside describe,
\* after a describe with a spec had returned: the example is as it was.
C20_Witness ==
    /\ pc = "failed"
    /\ thrownAt = <<Null>>
    /\ ~globalApi
    /\ declared = [examples |-> 1, specs |-> 1, hooks |-> 0]
    /\ heap[1].specs = <<<<"x", [kind |-> "fn", fn |-> "f", arg |-> Undefined]>>>>
    /\ "thisApi" \in DOMAIN globalScope
    /\ globalScope["thisApi"] = "globalScope"
====
